---- MODULE Spec2Model ----
(***************************************************************************)
(* tolgee-puller: the `generate` command handler, the export/merge        *)
(* pipeline (generateTolgeeTranslations) and the artifact writers.         *)
(*                                                                         *)
(* Strings that the code splits or joins are sequences of tokens: a name   *)
(* ("common", "en") is one token, the separators "/" and "." are tokens.   *)
(* JSON values: a leaf string s is <<"s", s>>, an object is <<"o", f>>     *)
(* with f a function from keys to JSON values.  An object that is          *)
(* the direct target of property access (the resource tree, a language's   *)
(* root, a parsed file) is the bare function.  The text of a message is    *)
(* the sequence of its tokens: "Hello {name}" is                           *)
(* <<"Hello", "{", "name", "}">>.                                          *)
(***************************************************************************)
EXTENDS Integers, Sequences, FiniteSets, TLC

\* ------------------------------------------------------------------ bounds
MaxLangs == 2
MaxFiles == 2

\* ------------------------------------------------------------ JS helpers
NULL == "<null>"

S(s) == <<"s", s>>
O(f) == <<"o", f>>
EmptyObject == [k \in {} |-> NULL]

\* key in obj
HasProp(obj, key) == key \in DOMAIN obj

Spread_FirstWins(a, b) ==
  [k \in (DOMAIN a) \cup (DOMAIN b) |-> IF k \in DOMAIN a THEN a[k] ELSE b[k]]

\* { ...a, ...b }
Spread(a, b) ==
  [k \in (DOMAIN a) \cup (DOMAIN b) |-> IF k \in DOMAIN b THEN b[k] ELSE a[k]]

\* obj[key] = value
SetProp(obj, key, value) ==
  [k \in (DOMAIN obj) \cup {key} |-> IF k = key THEN value ELSE obj[k]]

\* index of the first occurrence of sep in s, 0 when there is none
RECURSIVE IndexOf(_, _, _)
IndexOf(s, sep, from) ==
  IF from > Len(s) THEN 0
  ELSE IF s[from] = sep THEN from
  ELSE IndexOf(s, sep, from + 1)

\* String.prototype.split(sep): the segments between the separators
RECURSIVE Split(_, _)
Split(s, sep) ==
  LET i == IndexOf(s, sep, 1)
  IN  IF i = 0 THEN <<s>>
      ELSE <<SubSeq(s, 1, i - 1)>> \o Split(SubSeq(s, i + 1, Len(s)), sep)

\* the string a segment of name tokens spells
Text(seg) == IF seg = <<>> THEN "" ELSE seg[1]

\* languages.includes(language)
Includes(arr, x) == \E i \in 1..Len(arr) : arr[i] = x

\* the outcome of a call: a returned value or a thrown error
Completed(value) == [ok |-> TRUE, value |-> value]
Threw(error) == [ok |-> FALSE, error |-> error]

\* --------------------------------------------------------- mergeTranslations
\* languages.reduce((preVal, value) => ({ ...preVal, [value]: {} }), {})
RECURSIVE SeedResources(_)
SeedResources(languages) ==
  IF languages = <<>> THEN EmptyObject
  ELSE SetProp(SeedResources(SubSeq(languages, 1, Len(languages) - 1)),
               languages[Len(languages)], EmptyObject)

isValidDefaultNamespace(defaultNamespace) ==
  defaultNamespace # NULL /\ defaultNamespace # ""

\* const [namespace, filename] = path.split('/'); filename is undefined
\* when the path has no '/'
HasFileName(file) == Len(Split(file.path, "/")) >= 2
FileNamespace(file) == Text(Split(file.path, "/")[1])
FileName(file) == Split(file.path, "/")[2]
\* const [language] = filename.split('.')
FileLanguage(file) == Text(Split(FileName(file), ".")[1])

MergeFile_AlwaysNested(resources, file, defaultNamespace) ==
  IF ~HasFileName(file) THEN Threw("TypeError")
  ELSE IF ~file.data.json THEN Threw("SyntaxError")
  ELSE IF ~HasProp(resources, FileLanguage(file)) THEN Threw("TypeError")
  ELSE Completed(SetProp(resources, FileLanguage(file),
         SetProp(resources[FileLanguage(file)], FileNamespace(file),
                 O(file.data.value))))

MergeFile_KeepsFirstEntry(resources, file, defaultNamespace) ==
  IF ~HasFileName(file) THEN Threw("TypeError")
  ELSE IF ~file.data.json THEN Threw("SyntaxError")
  ELSE
    LET namespace == FileNamespace(file)
        language == FileLanguage(file)
        newMessages == file.data.value
    IN  IF isValidDefaultNamespace(defaultNamespace) /\ defaultNamespace = namespace
        THEN Completed(SetProp(resources, language,
               Spread(newMessages,
                      IF HasProp(resources, language) THEN resources[language]
                      ELSE EmptyObject)))
        ELSE IF ~HasProp(resources, language)
             THEN Threw("TypeError")
             ELSE IF HasProp(resources[language], namespace)
                  THEN Completed(resources)
                  ELSE Completed(SetProp(resources, language,
                         SetProp(resources[language], namespace, O(newMessages))))

\* the body of files.forEach in mergeTranslations, for one file
MergeFile(resources, file, defaultNamespace) ==
  IF ~HasFileName(file) THEN Threw("TypeError")
  ELSE IF ~file.data.json THEN Threw("SyntaxError")
  ELSE
    LET namespace == FileNamespace(file)
        language == FileLanguage(file)
        newMessages == file.data.value
    IN  IF isValidDefaultNamespace(defaultNamespace) /\ defaultNamespace = namespace
        THEN Completed(SetProp(resources, language,
               Spread(IF HasProp(resources, language) THEN resources[language]
                      ELSE EmptyObject,
                      newMessages)))
        ELSE IF ~HasProp(resources, language)
             THEN Threw("TypeError")
             ELSE Completed(SetProp(resources, language,
                    SetProp(resources[language], namespace, O(newMessages))))

RECURSIVE MergeFrom(_, _, _)
MergeFrom(resources, files, defaultNamespace) ==
  IF files = <<>> THEN Completed(resources)
  ELSE LET r == MergeFile(resources, Head(files), defaultNamespace)
       IN  IF r.ok THEN MergeFrom(r.value, Tail(files), defaultNamespace) ELSE r

mergeTranslations(languages, files, defaultNamespace) ==
  MergeFrom(SeedResources(languages), files, defaultNamespace)

\* the condition of the first revision of the merge loop: namespace === defaultNamespace
MergeFileV1(messages, file, defaultNamespace) ==
  IF ~HasFileName(file) THEN Threw("TypeError")
  ELSE IF ~file.data.json THEN Threw("SyntaxError")
  ELSE
    LET namespace == FileNamespace(file)
        language == FileLanguage(file)
        newMessages == file.data.value
    IN  IF namespace = defaultNamespace
        THEN Completed(SetProp(messages, language,
               Spread(IF HasProp(messages, language) THEN messages[language]
                      ELSE EmptyObject,
                      newMessages)))
        ELSE IF ~HasProp(messages, language)
             THEN Threw("TypeError")
             ELSE Completed(SetProp(messages, language,
                    SetProp(messages[language], namespace, O(newMessages))))

RECURSIVE MergeFromV1(_, _, _)
MergeFromV1(messages, files, defaultNamespace) ==
  IF files = <<>> THEN Completed(messages)
  ELSE LET r == MergeFileV1(messages, Head(files), defaultNamespace)
       IN  IF r.ok THEN MergeFromV1(r.value, Tail(files), defaultNamespace) ELSE r

mergeTranslationsV1(defaultNamespace, locales, files) ==
  MergeFromV1(SeedResources(locales), files, defaultNamespace)

\* ------------------------------------------------- ICU message patterns
\* parse(message) of @formatjs/icu-messageformat-parser, over token
\* sequences: the elements of a pattern, or a syntax error.  Tags and
\* argument styles are left out.
IsIdentifier(token) == token \notin {"{", "}", ",", "#"}

Literal(value) == [type |-> "literal", value |-> value]
Pound == [type |-> "pound"]
Argument(type, value) == [type |-> type, value |-> value]
PluralOrSelect(type, value, options) ==
  [type |-> type, value |-> value, options |-> options]

SyntaxError == [ok |-> FALSE]
Parsed(elements, next) == [ok |-> TRUE, elements |-> elements, next |-> next]

RECURSIVE parseMessage(_, _, _, _)
RECURSIVE parseArgument(_, _, _)
RECURSIVE parseArgumentOptions(_, _, _, _)
RECURSIVE tryParsePluralOrSelectOptions(_, _, _, _)

\* the elements from offset i up to the end of the message or, inside an
\* option, up to its closing brace
parseMessage(m, i, nestingLevel, parentArgType) ==
  IF i > Len(m) THEN Parsed(<<>>, i)
  ELSE IF m[i] = "}" /\ nestingLevel > 0 THEN Parsed(<<>>, i)
  ELSE
    LET first ==
          IF m[i] = "{" THEN parseArgument(m, i, nestingLevel)
          ELSE IF m[i] = "#" /\ parentArgType = "plural"
               THEN Parsed(<<Pound>>, i + 1)
               ELSE Parsed(<<Literal(m[i])>>, i + 1)
    IN  IF ~first.ok THEN SyntaxError
        ELSE LET rest == parseMessage(m, first.next, nestingLevel, parentArgType)
             IN  IF ~rest.ok THEN SyntaxError
                 ELSE Parsed(first.elements \o rest.elements, rest.next)

\* m[i] is an opening brace
parseArgument(m, i, nestingLevel) ==
  IF i + 2 > Len(m) THEN SyntaxError
  ELSE IF ~IsIdentifier(m[i + 1]) THEN SyntaxError
  ELSE IF m[i + 2] = "}" THEN Parsed(<<Argument("argument", m[i + 1])>>, i + 3)
  ELSE IF m[i + 2] = "," THEN parseArgumentOptions(m, i + 3, m[i + 1], nestingLevel)
  ELSE SyntaxError

\* m[i] is where the argument's type stands
parseArgumentOptions(m, i, value, nestingLevel) ==
  IF i + 1 > Len(m) THEN SyntaxError
  ELSE IF m[i] \in {"number", "date", "time"}
       THEN IF m[i + 1] = "}" THEN Parsed(<<Argument(m[i], value)>>, i + 2)
            ELSE SyntaxError
  ELSE IF m[i] \in {"plural", "select"}
       THEN IF m[i + 1] # "," THEN SyntaxError
            ELSE LET options ==
                       tryParsePluralOrSelectOptions(m, i + 2, nestingLevel, m[i])
                 IN  IF ~options.ok THEN SyntaxError
                     ELSE IF options.elements = <<>> THEN SyntaxError
                     ELSE IF ~\E o \in 1..Len(options.elements) :
                                 options.elements[o].selector = "other"
                          THEN SyntaxError
                     ELSE IF options.next > Len(m) THEN SyntaxError
                     ELSE IF m[options.next] # "}" THEN SyntaxError
                     ELSE Parsed(<<PluralOrSelect(m[i], value, options.elements)>>,
                                 options.next + 1)
  ELSE SyntaxError

\* the options `selector {pattern}` from offset i on
tryParsePluralOrSelectOptions(m, i, nestingLevel, parentArgType) ==
  IF i > Len(m) THEN Parsed(<<>>, i)
  ELSE IF ~IsIdentifier(m[i]) THEN Parsed(<<>>, i)
  ELSE IF i + 1 > Len(m) THEN SyntaxError
  ELSE IF m[i + 1] # "{" THEN SyntaxError
  ELSE LET fragment == parseMessage(m, i + 2, nestingLevel + 1, parentArgType)
       IN  IF ~fragment.ok THEN SyntaxError
           ELSE IF fragment.next > Len(m) THEN SyntaxError
           ELSE LET rest == tryParsePluralOrSelectOptions(m, fragment.next + 1,
                                                          nestingLevel, parentArgType)
                IN  IF ~rest.ok THEN SyntaxError
                    ELSE Parsed(<< [selector |-> m[i], value |-> fragment.elements] >>
                                  \o rest.elements, rest.next)

\* parse(message): a value that is no string makes the parser throw as well
parse(message) ==
  IF message[1] # "s" THEN Threw("TypeError")
  ELSE LET r == parseMessage(message[2], 1, 0, "")
       IN  IF r.ok THEN Completed(r.elements) ELSE Threw("SyntaxError")

\* ------------------------------------------------------------------ logger
\* a line of the logger: the level, the message and the further arguments
LogArgs(level, message, args) == [level |-> level, message |-> message, args |-> args]

\* ------------------------------------------- detectInconsistentVariableNames
\* for (const variable of parse(message)) { ... names.push(variable.value) }
RECURSIVE PushNames(_, _)
PushNames(names, elements) ==
  IF elements = <<>> THEN names
  ELSE PushNames(IF Head(elements).type # "literal" /\ "value" \in DOMAIN Head(elements)
                 THEN Append(names, Head(elements).value)
                 ELSE names,
                 Tail(elements))

extractVariableNames_Silent(message) ==
  LET r == parse(message)
  IN  [names |-> IF r.ok THEN PushNames(<<>>, r.value) ELSE <<>>, log |-> <<>>]

\* names.push(variable.value) for the elements that are no literal and have
\* a value; a parser that throws leaves the names empty and logs three lines
extractVariableNames(message) ==
  LET r == parse(message)
  IN  IF r.ok
      THEN [names |-> PushNames(<<>>, r.value), log |-> <<>>]
      ELSE [names |-> <<>>,
            log |-> << LogArgs("error",
                         "Caught an error while trying to parse an ICU message.", <<>>),
                       LogArgs("error", "Message:", <<message>>),
                       LogArgs("error", "Error:", << <<"e", r.error>> >>) >>]

\* dot.dot(obj) of dot-object: the leaves by their path; a flattened key
\* a.b.c is the path <<"a", "b", "c">>, and an empty object is a leaf
RECURSIVE DotEntries(_)
DotEntries(obj) ==
  UNION { IF obj[k][1] = "o" /\ DOMAIN obj[k][2] # {}
          THEN { << <<k>> \o e[1], e[2] >> : e \in DotEntries(obj[k][2]) }
          ELSE { << <<k>>, obj[k] >> } : k \in DOMAIN obj }

dot(obj) ==
  LET entries == DotEntries(obj)
  IN  [key \in { e[1] : e \in entries } |->
         (CHOOSE e \in entries : e[1] = key)[2]]

\* an enumeration of a set, standing for the insertion order of the keys
RECURSIVE SetToSeq(_)
SetToSeq(set) ==
  IF set = {} THEN <<>>
  ELSE LET x == CHOOSE y \in set : TRUE IN <<x>> \o SetToSeq(set \ {x})

\* Object.fromEntries(languages.map((language) => [language, dot.dot(resources[language])]))
FlatResources(languages, tree) ==
  [language \in { languages[i] : i \in 1..Len(languages) } |-> dot(tree[language])]

Falsy_OnlyNullish(value) == value[1] \in {"n", "u"}

\* !compareValue
Falsy(value) == value[1] \in {"n", "u"} \/ (value[1] = "s" /\ value[2] = <<>>)

\* for (const variable of variables): the outliers of `key` after the loop
RECURSIVE RecordOutliers(_, _, _, _)
RecordOutliers(outliers, key, variables, compareVariables) ==
  IF variables = <<>> THEN outliers
  ELSE LET variable == Head(variables)
           created == IF key \in DOMAIN outliers THEN outliers
                      ELSE SetProp(outliers, key, <<>>)
           pushed == IF Includes(created[key], variable) THEN created
                     ELSE SetProp(created, key, Append(created[key], variable))
       IN  RecordOutliers(IF Includes(compareVariables, variable) THEN outliers
                          ELSE pushed,
                          key, Tail(variables), compareVariables)

\* for (const compareLanguage of languages), from the j-th language on
RECURSIVE CompareFrom(_, _, _, _, _, _)
CompareFrom(acc, flatResources, languages, key, variables, j) ==
  IF j > Len(languages) THEN acc
  ELSE LET compare == flatResources[languages[j]]
       IN  IF key \notin DOMAIN compare \/ Falsy(compare[key])
           THEN CompareFrom(acc, flatResources, languages, key, variables, j + 1)
           ELSE LET compareVariables == extractVariableNames(compare[key])
                IN  CompareFrom(
                      [outliers |-> RecordOutliers(acc.outliers, key, variables,
                                                   compareVariables.names),
                       log |-> acc.log \o compareVariables.log],
                      flatResources, languages, key, variables, j + 1)

\* for (const [key, value] of Object.entries(flatResources[language]))
RECURSIVE CheckKeys(_, _, _, _, _)
CheckKeys(acc, flatResources, languages, language, keys) ==
  IF keys = <<>> THEN acc
  ELSE LET key == Head(keys)
           variables == extractVariableNames(flatResources[language][key])
       IN  CheckKeys(
             CompareFrom([outliers |-> acc.outliers, log |-> acc.log \o variables.log],
                         flatResources, languages, key, variables.names, 1),
             flatResources, languages, language, Tail(keys))

\* one iteration of for (const language of languages)
CheckLanguage(acc, flatResources, languages, language) ==
  CheckKeys(acc, flatResources, languages, language,
            SetToSeq(DOMAIN flatResources[language]))

RECURSIVE CheckLanguagesFrom(_, _, _, _)
CheckLanguagesFrom(acc, flatResources, languages, i) ==
  IF i > Len(languages) THEN acc
  ELSE CheckLanguagesFrom(CheckLanguage(acc, flatResources, languages, languages[i]),
                          flatResources, languages, i + 1)

\* logInfo(message, ...args)
logInfo(message, args) == LogArgs("info", message, args)

\* if (outliers_.length) { logInfo(`Found ${outliers_.length} keys ...`, outliers) }
ReportOutliers(outliers) ==
  IF Cardinality(DOMAIN outliers) # 0
  THEN << logInfo("Found keys that have outlier variables in one or more languages:",
                  << <<"outliers", Cardinality(DOMAIN outliers), outliers>> >>) >>
  ELSE <<>>

\* the outliers computed and the lines logged
detectInconsistentVariableNames(languages, tree) ==
  LET acc == CheckLanguagesFrom([outliers |-> EmptyObject, log |-> <<>>],
                                FlatResources(languages, tree), languages, 1)
  IN  [outliers |-> acc.outliers, log |-> acc.log \o ReportOutliers(acc.outliers)]

\* ------------------------------------------------------------- HTTP bodies
\* A raw body is the text the server sent: the serialisation of a JSON value,
\* a zip archive, or some other text.  JSON values: S(s), O(f), A(seq), JNull.
A(seq) == <<"a", seq>>
JNull == <<"n", NULL>>
JUndefined == <<"u", NULL>>

JsonText(data) == [raw |-> "json", data |-> data]
PlainText(text) == [raw |-> "text", text |-> text]
ZipBytes(files) == [raw |-> "zip", files |-> files]
NoText == PlainText("")

\* JSON.stringify(data): the text whose parse is data
JSONstringify(data) == JsonText(data)

\* response.json(): fails on a body that is not JSON text
ResponseJson(response) ==
  IF response.body.raw = "json" THEN Completed(response.body.data)
  ELSE Threw([message |-> "SyntaxError: ", detail |-> NoText])

\* response.text(): the raw body
ResponseText(response) == response.body

\* response.ok
ResponseOk(response) == response.status >= 200 /\ response.status <= 299

\* new Error(`${message}${detail}`)
Error(message, detail) == [message |-> message, detail |-> detail]

\* ------------------------------------------------------------- query string
\* values.join(sep) over token sequences
RECURSIVE Join(_, _)
Join(values, sep) ==
  IF values = <<>> THEN <<>>
  ELSE IF Len(values) = 1 THEN <<values[1]>>
  ELSE <<values[1]>> \o sep \o Join(Tail(values), sep)

parseMultiValueFilter(filter, values) ==
  <<filter, "=">> \o Join(values, <<"&", filter, "=">>)

parseLanguages_RepeatedKey(languages) ==
  IF Len(languages) = 0 THEN <<>>
  ELSE << parseMultiValueFilter("languages", languages) >>

\* null (the empty sequence of present values) when no language is requested
parseLanguages(languages) ==
  IF Len(languages) = 0 THEN <<>>
  ELSE << <<"languages", "=">> \o Join(languages, <<",">>) >>

RECURSIVE JoinParams(_, _)
JoinParams(values, index) ==
  IF index > Len(values) THEN <<>>
  ELSE (IF index > 1 THEN <<"&">> ELSE <<>>) \o values[index]
         \o JoinParams(values, index + 1)

parseQueryParams(languages, namespaces) ==
  LET values == parseLanguages(languages)
                  \o << parseMultiValueFilter("filterNamespace", namespaces) >>
  IN  <<"?">> \o JoinParams(values, 1)

\* ---------------------------------------------------------------- tolgeeApi
tolgeeApi_NoStatusCheck(fetched) == fetched

\* the continuation of tolgeeApi once fetch has settled
tolgeeApi(fetched) ==
  IF ~fetched.ok THEN fetched
  ELSE IF ~ResponseOk(fetched.value)
       THEN Threw(Error("", ResponseText(fetched.value)))
       ELSE Completed(fetched.value)

\* the body-reading methods tolgeeApi itself calls on the response
tolgeeApiReads(fetched) ==
  IF fetched.ok /\ ~ResponseOk(fetched.value) THEN <<"text">> ELSE <<>>

\* --------------------------------------------------------- validateLanguages
isObjectWithProp(value, key) ==
  /\ value[1] \in {"o", "a"}
  /\ value[1] = "o"
  /\ key \in DOMAIN value[2]

\* ({ tag }) => tag
TagOf(entry) ==
  IF entry[1] = "o" /\ "tag" \in DOMAIN entry[2] THEN entry[2]["tag"] ELSE JUndefined

\* tolgeeLanguages.map(({ tag }) => tag)
TagsOf(entries) == [i \in 1..Len(entries) |-> TagOf(entries[i])]

\* the shape test of validateLanguages: both isObjectWithProp tests and
\* Array.isArray(tolgeeLanguages)
HasLanguagesArray(data) ==
  /\ isObjectWithProp(data, "_embedded")
  /\ isObjectWithProp(data[2]["_embedded"], "languages")
  /\ data[2]["_embedded"][2]["languages"][1] = "a"

\* data?._embedded?.languages
tolgeeLanguagesOf(data) == data[2]["_embedded"][2]["languages"][2]

AllLanguagesKnown_Skipped(requested, tolgeeLanguageTags) == TRUE

AllLanguagesKnown_Some(requested, tolgeeLanguageTags) ==
  \E i \in 1..Len(requested) : Includes(tolgeeLanguageTags, S(requested[i]))

\* languages.every((language) => tolgeeLanguageTags.includes(language))
AllLanguagesKnown(requested, tolgeeLanguageTags) ==
  \A i \in 1..Len(requested) : Includes(tolgeeLanguageTags, S(requested[i]))

\* new Error(`Failed trying to fetch non-existing language. ${JSON.stringify(data)}`)
NonexistentLanguageError(data) ==
  Error("Failed trying to fetch non-existing language. ", JSONstringify(data))

MalformedResponseError_SameMessage(data) ==
  Error("Failed trying to fetch non-existing language. ", JSONstringify(data))

\* new Error(`Failed retrieving languages. ${JSON.stringify(data)}`)
MalformedResponseError(data) ==
  Error("Failed retrieving languages. ", JSONstringify(data))

\* the continuation of validateLanguages once the catalogue call has settled
validateLanguages(requested, fetched) ==
  LET result == tolgeeApi(fetched)
  IN  IF ~result.ok THEN result
      ELSE LET parsed == ResponseJson(result.value)
           IN  IF ~parsed.ok THEN parsed
               ELSE LET data == parsed.value
                    IN  IF HasLanguagesArray(data)
                        THEN IF AllLanguagesKnown(requested, TagsOf(tolgeeLanguagesOf(data)))
                             THEN Completed(<<>>)
                             ELSE Threw(NonexistentLanguageError(data))
                        ELSE Threw(MalformedResponseError(data))

\* the body-reading methods called on the catalogue response
validateLanguagesReads(fetched) ==
  tolgeeApiReads(fetched) \o (IF tolgeeApi(fetched).ok THEN <<"json">> ELSE <<>>)

\* first revision: fetchLanguages returns the catalogue's tags
fetchLanguages(fetched) ==
  LET result == tolgeeApi(fetched)
  IN  IF ~result.ok THEN result
      ELSE LET parsed == ResponseJson(result.value)
           IN  IF ~parsed.ok THEN parsed
               ELSE LET data == parsed.value
                    IN  IF HasLanguagesArray(data)
                        THEN LET tags == TagsOf(tolgeeLanguagesOf(data))
                             IN  Completed([i \in 1..Len(tags) |-> tags[i][2]])
                        ELSE Threw(MalformedResponseError(data))

\* ------------------------------------------------------------ input domains
LanguageTags == {"en", "de"}
Namespaces == {"common", "messages"}

Json(obj) == [json |-> TRUE, value |-> obj]
NotJson == [json |-> FALSE]

FileContents ==
  { Json([hello |-> S(<<"hi">>)]),
    Json([hello |-> O([a |-> S(<<"hallo">>)]), messages |-> S(<<"m">>)]),
    Json([hello |-> O([b |-> S(<<"hi">>)])]),
    Json(EmptyObject),
    NotJson }

FilePaths ==
  { <<ns, "/", l, ".", "json">> : ns \in Namespaces, l \in LanguageTags }
    \cup { <<"en", ".", "json">> }

VirtualFiles == [path : FilePaths, data : FileContents]

RECURSIVE SeqsUpTo(_, _)
SeqsUpTo(set, n) ==
  IF n = 0 THEN {<<>>} ELSE SeqsUpTo(set, n - 1) \cup [1..n -> set]

DefaultNamespaces == {NULL, ""} \cup Namespaces

\* requested language tags; "xx" is a tag no catalogue knows
RequestTags == {"en", "de", "xx"}

\* the revisions of the program: the command handler and the pipeline it calls
Builds ==
  { [handler |-> "generate.ts", pipeline |-> "part_002"],
    [handler |-> "part_004",    pipeline |-> "part_003"],
    [handler |-> "logger.ts",   pipeline |-> "part_003"],
    [handler |-> "logger.ts",   pipeline |-> "tolgee.ts"] }

\* the handler's `options` after the argv/env defaults
HandlerOptions ==
  [ apiKey : {NULL, "key"},
    namespaces : {<<>>, <<"common">>, <<"common", "messages">>},
    defaultNamespace : {NULL} \cup Namespaces,
    languages : SeqsUpTo(RequestTags, MaxLangs),
    split : BOOLEAN,
    prettier : BOOLEAN ]

\* options a revision does not have keep one value
OptionsOf(b) ==
  { o \in HandlerOptions :
      /\ (b.handler = "generate.ts" => o.languages = <<>>)
      /\ (~(b.handler = "logger.ts" /\ b.pipeline = "part_003") => ~o.split)
      /\ (b.pipeline # "tolgee.ts" => ~o.prettier) }

Language(tag) == O([tag |-> S(tag)])
Catalogue(entries) == O([_embedded |-> O([languages |-> A(entries)])])

CatalogueBodies ==
  { JsonText(Catalogue(<<Language("en"), Language("de")>>)),
    JsonText(Catalogue(<<Language("de")>>)),
    JsonText(Catalogue(<<>>)),
    JsonText(Catalogue(<<O([name |-> S("English")]), Language("en")>>)),
    JsonText(O(EmptyObject)),
    JsonText(O([_embedded |-> O(EmptyObject)])),
    JsonText(O([_embedded |-> O([languages |-> S("en")])])),
    JsonText(O([_embedded |-> JNull])),
    JsonText(A(<<>>)),
    JsonText(JNull),
    PlainText("<html>") }

ErrorBodies == { PlainText("Unauthorized"), JsonText(O([code |-> S("not_found")])) }

File(ns, l, obj) == [path |-> <<ns, "/", l, ".", "json">>, data |-> Json(obj)]

Archives ==
  { <<>>,
    <<File("common", "en", [hello |-> S(<<"hi">>)])>>,
    <<File("common", "en", [hello |-> S(<<"hi">>)]),
      File("messages", "en", [x |-> S(<<"y">>)])>>,
    <<File("common", "en", [hello |-> S(<<"hi">>)]),
      File("common", "de", [hello |-> S(<<"hallo">>)])>>,
    <<File("messages", "de", [x |-> S(<<"z">>)])>>,
    <<File("common", "en", [greet |-> S(<<"Hello", "{", "name", "}">>)]),
      File("common", "de", [greet |-> S(<<"Hallo">>)])>>,
    <<File("common", "en", [greet |-> S(<<"Hello", "{", "name">>)]),
      File("common", "de", [greet |-> S(<<"Hallo", "{", "name", "}">>)])>>,
    <<[path |-> <<"common", "/", "en", ".", "json">>, data |-> NotJson]>> }

ExportBodies == { ZipBytes(files) : files \in Archives } \cup { PlainText("<html>") }

OkStatuses == {200}
ErrorStatuses == {401, 500}

\* what a fetch can settle to
Fetched(bodies) ==
  { Completed([status |-> st, body |-> body]) : st \in OkStatuses, body \in bodies }
    \cup { Completed([status |-> st, body |-> body]) :
             st \in ErrorStatuses, body \in ErrorBodies }
    \cup { Threw(Error("FetchError: ", NoText)) }

\* resolve(cwd(), ...): the two older handlers pass the package directory,
\* the later ones DEFAULT_OUTPUT_PATH
OutputPathOf(b) ==
  IF b.handler = "logger.ts"
  THEN <<"node_modules", "/", "tolgee-puller", "/", "messages", ".", "ts">>
  ELSE <<"node_modules", "/", "tolgee-puller">>

\* ---------------------------------------------------------------- state
VARIABLES
  build,        \* the revision that runs
  argv,         \* what the handler was called with, the environment's values filled in
  options,      \* the handler's `options`
  pc,           \* where the handler's thread of control is
  calls,        \* the calls of tolgeeApi, in order
  log,          \* the logger's output, in order
  settled,      \* the handler's promise: "pending", "resolved", "rejected"
  caught,       \* the error the handler's run ended with (at most one)
  languages,    \* the pipeline's languages (the catalogue's in part_002)
  zip,          \* the export body handed to decompress
  files,        \* the decompressed virtual files
  resources,    \* the merged tree
  pending,      \* the artifacts the synchronous writer still has to write
  writer,       \* the state of the un-awaited writeResourceFile call
  fs,           \* the files written, by path
  writes,       \* the paths written or attempted, in order
  mLanguages,   \* mergeTranslations: the languages argument
  mFiles,       \* mergeTranslations: the files argument
  mDefault,     \* mergeTranslations: the defaultNamespace argument
  mResources,   \* mergeTranslations: the local `resources`
  mIndex,       \* number of files the forEach has visited
  mState,       \* "running", "returned" or "threw"
  cLanguages,   \* detectInconsistentVariableNames: the languages argument
  cResources,   \* detectInconsistentVariableNames: the resources argument
  cOutliers,    \* the local `outliers`
  cLog,         \* the lines logged by the check
  cIndex,       \* number of languages the outer loop has visited
  cState,       \* "running" or "returned"
  invocations,  \* two concurrent runs: each one's options, data and progress
  disk,         \* the file system the two runs share, by path
  diskWrites    \* the completed writes to it, in order, with the run that wrote

hvars == <<build, argv, options, pc, calls, log, settled, caught, languages, zip,
           files, resources, pending, writer, fs, writes>>
mvars == <<mLanguages, mFiles, mDefault, mResources, mIndex, mState>>
cvars == <<cLanguages, cResources, cOutliers, cLog, cIndex, cState>>
tvars == <<invocations, disk, diskWrites>>


NoFiles == [p \in {} |-> NULL]

HandlerIdle ==
  /\ build = [handler |-> "logger.ts", pipeline |-> "tolgee.ts"]
  /\ argv = [defaultNamespace |-> NULL]
  /\ options = [apiKey |-> NULL, namespaces |-> <<>>, defaultNamespace |-> NULL,
                languages |-> <<>>, split |-> FALSE, prettier |-> FALSE]
  /\ pc = "off"
  /\ calls = <<>>
  /\ log = <<>>
  /\ settled = "pending"
  /\ caught = <<>>
  /\ languages = <<>>
  /\ zip = NoText
  /\ files = <<>>
  /\ resources = EmptyObject
  /\ pending = <<>>
  /\ writer = "idle"
  /\ fs = NoFiles
  /\ writes = <<>>

MergeIdle ==
  /\ mLanguages = <<>>
  /\ mFiles = <<>>
  /\ mDefault = NULL
  /\ mResources = EmptyObject
  /\ mIndex = 0
  /\ mState = "off"

CheckIdle ==
  /\ cLanguages = <<>>
  /\ cResources = EmptyObject
  /\ cOutliers = EmptyObject
  /\ cLog = <<>>
  /\ cIndex = 0
  /\ cState = "off"

TwoIdle ==
  /\ invocations = <<>>
  /\ disk = NoFiles
  /\ diskWrites = <<>>

\* ------------------------------------------------------ the command handler
Init ==
  /\ build \in Builds
  /\ options \in OptionsOf(build)
  /\ argv = [defaultNamespace |-> options.defaultNamespace]
  /\ pc = "start"
  /\ calls = <<>>
  /\ log = <<>>
  /\ settled = "pending"
  /\ caught = <<>>
  /\ languages = <<>>
  /\ zip = NoText
  /\ files = <<>>
  /\ resources = EmptyObject
  /\ pending = <<>>
  /\ writer = "idle"
  /\ fs = NoFiles
  /\ writes = <<>>
  /\ MergeIdle
  /\ CheckIdle
  /\ TwoIdle

LogLine(level, message) == LogArgs(level, message, <<>>)

FailedPulling == "Failed pulling translation files from Tolgee."

ConfigError_NoMembershipCheck(o) ==
  IF o.apiKey = NULL THEN <<Error("No API key specified.", NoText)>>
  ELSE IF Len(o.namespaces) = 0 THEN <<Error("No namespaces specified.", NoText)>>
  ELSE <<>>

\* the checks at the head of the handler: the error of the first that fails
ConfigError(o) ==
  IF o.apiKey = NULL THEN <<Error("No API key specified.", NoText)>>
  ELSE IF Len(o.namespaces) = 0 THEN <<Error("No namespaces specified.", NoText)>>
  ELSE IF o.defaultNamespace # NULL /\ ~Includes(o.namespaces, o.defaultNamespace)
       THEN <<Error("The option defaultNamespace should be one of the specified namespaces.",
                    NoText)>>
       ELSE <<>>

HandlerCatch_RetriesOnce(e) ==
  /\ log' = Append(log, LogLine("error", FailedPulling))
  /\ caught' = <<e>>
  /\ settled' = IF build.handler = "generate.ts" THEN "resolved" ELSE "rejected"
  /\ pc' = IF Len(calls) = 1 THEN "start" ELSE "done"

\* catch (e) { logError(...); throw e; }  (generate.ts logs and does not throw)
HandlerCatch(e) ==
  /\ log' = Append(log, LogLine("error", FailedPulling))
  /\ caught' = <<e>>
  /\ settled' = IF build.handler = "generate.ts" THEN "resolved" ELSE "rejected"
  /\ pc' = "done"

\* fetch(`${apiUrl}/v2${path}`, { headers }) is issued
Request(path) ==
  [path |-> path, apiKey |-> options.apiKey, state |-> "pending", reads |-> <<>>,
   response |-> <<>>, error |-> <<>>, value |-> <<>>]

\* the call once fetch has settled and tolgeeApi's caller has read the body
Settle(call, fetched, callerReads) ==
  LET r == tolgeeApi(fetched)
  IN  [call EXCEPT !.state = IF r.ok THEN "returned" ELSE "threw",
                   !.response = IF fetched.ok THEN <<fetched.value>> ELSE <<>>,
                   !.reads = tolgeeApiReads(fetched) \o (IF r.ok THEN callerReads ELSE <<>>),
                   !.error = IF r.ok THEN <<>> ELSE <<r.error>>,
                   !.value = IF r.ok THEN <<r.value>> ELSE <<>>]

HandlerStart_DefaultsToFirstNamespace ==
  /\ pc = "start"
  /\ LET e == ConfigError(options)
     IN  IF e # <<>>
         THEN /\ IF build.handler = "generate.ts"
                 THEN /\ log' = Append(log, LogLine("error", e[1].message))
                      /\ caught' = e
                      /\ settled' = "resolved"
                      /\ pc' = "done"
                 ELSE HandlerCatch(e[1])
              /\ UNCHANGED <<options, calls>>
         ELSE /\ options' =
                   IF /\ build.handler \in {"generate.ts", "part_004"}
                      /\ Len(options.namespaces) >= 1
                   THEN [options EXCEPT !.defaultNamespace = options.namespaces[1]]
                   ELSE options
              /\ calls' = Append(calls, Request(<<"/projects/languages">>))
              /\ pc' = "languages"
              /\ UNCHANGED <<log, caught, settled>>
  /\ UNCHANGED <<build, argv, languages, zip, files, resources, pending, writer, fs, writes>>
  /\ UNCHANGED <<mvars, cvars, tvars>>

\* the handler up to its first await: the configuration checks, then
\* generateTolgeeTranslations up to the fetch of the language catalogue
HandlerStart ==
  /\ pc = "start"
  /\ LET e == ConfigError(options)
     IN  IF e # <<>>
         THEN /\ IF build.handler = "generate.ts"
                 THEN /\ log' = Append(log, LogLine("error", e[1].message))
                      /\ caught' = e
                      /\ settled' = "resolved"
                      /\ pc' = "done"
                 ELSE HandlerCatch(e[1])
              /\ UNCHANGED <<options, calls>>
         ELSE /\ options' =
                   IF /\ build.handler \in {"generate.ts", "part_004"}
                      /\ Len(options.namespaces) = 1
                   THEN [options EXCEPT !.defaultNamespace = options.namespaces[1]]
                   ELSE options
              /\ calls' = Append(calls, Request(<<"/projects/languages">>))
              /\ pc' = "languages"
              /\ UNCHANGED <<log, caught, settled>>
  /\ UNCHANGED <<build, argv, languages, zip, files, resources, pending, writer, fs, writes>>
  /\ UNCHANGED <<mvars, cvars, tvars>>

\* the query of the export request
ExportQuery ==
  IF build.pipeline = "part_002"
  THEN <<"?">> \o parseMultiValueFilter("filterNamespace", options.namespaces)
  ELSE parseQueryParams(options.languages, options.namespaces)

\* the catalogue fetch settles: validateLanguages (fetchLanguages in part_002)
\* runs to its end, then fetchTranslationsZip up to the fetch of the export
CatalogueSettled ==
  /\ pc = "languages"
  /\ \E fetched \in Fetched(CatalogueBodies) :
       LET r == IF build.pipeline = "part_002" THEN fetchLanguages(fetched)
                ELSE validateLanguages(options.languages, fetched)
           settledCalls == [calls EXCEPT ![Len(calls)] = Settle(@, fetched, <<"json">>)]
       IN  IF r.ok
           THEN /\ languages' = IF build.pipeline = "part_002" THEN r.value
                                ELSE options.languages
                /\ calls' = Append(settledCalls,
                                   Request(<<"/projects/export">> \o ExportQuery))
                /\ pc' = "export"
                /\ UNCHANGED <<log, caught, settled>>
           ELSE /\ calls' = settledCalls
                /\ HandlerCatch(r.error)
                /\ UNCHANGED languages
  /\ UNCHANGED <<build, argv, options, zip, files, resources, pending, writer, fs, writes>>
  /\ UNCHANGED <<mvars, cvars, tvars>>

\* the export fetch settles: the body is read into a buffer and handed to decompress
ExportSettled ==
  /\ pc = "export"
  /\ \E fetched \in Fetched(ExportBodies) :
       LET r == tolgeeApi(fetched)
       IN  /\ calls' = [calls EXCEPT ![Len(calls)] = Settle(@, fetched, <<"arrayBuffer">>)]
           /\ IF r.ok
              THEN /\ zip' = r.value.body
                   /\ pc' = "decompress"
                   /\ UNCHANGED <<log, caught, settled>>
              ELSE /\ HandlerCatch(r.error)
                   /\ UNCHANGED zip
  /\ UNCHANGED <<build, argv, options, languages, files, resources, pending, writer, fs, writes>>
  /\ UNCHANGED <<mvars, cvars, tvars>>

\* decompress(zip) settles: the entries of an archive; for a buffer that is no
\* archive the library either finds no entries or rejects
Decompressed ==
  /\ pc = "decompress"
  /\ \/ /\ zip.raw = "zip"
        /\ files' = zip.files
        /\ pc' = "merge"
        /\ UNCHANGED <<log, caught, settled>>
     \/ /\ zip.raw # "zip"
        /\ files' = <<>>
        /\ pc' = "merge"
        /\ UNCHANGED <<log, caught, settled>>
     \/ /\ zip.raw # "zip"
        /\ HandlerCatch(Error("decompress: ", NoText))
        /\ UNCHANGED files
  /\ UNCHANGED <<build, argv, options, calls, languages, zip, resources, pending, writer, fs, writes>>
  /\ UNCHANGED <<mvars, cvars, tvars>>

\* ------------------------------------------------------- artifact writers
GeneratedHeader == "// THIS FILE IS GENERATED, DO NOT EDIT!"

\* the generated source text around the serialised data
Code(name, body, pretty) ==
  [header |-> GeneratedHeader, name |-> name, body |-> body, pretty |-> pretty]

Artifact(path, code) == [path |-> path, code |-> code]

RECURSIVE LastIndexOf(_, _)
LastIndexOf(s, sep) ==
  IF s = <<>> THEN 0
  ELSE IF s[Len(s)] = sep THEN Len(s)
  ELSE LastIndexOf(SubSeq(s, 1, Len(s) - 1), sep)

\* path.dirname(outputPath)
Dirname(path) ==
  LET i == LastIndexOf(path, "/")
  IN  IF i = 0 THEN <<".">> ELSE SubSeq(path, 1, i - 1)

\* the keys of the merged tree in insertion order: the seeded languages, then
\* the languages the files added
RECURSIVE Dedupe(_)
Dedupe(seq) ==
  IF seq = <<>> THEN <<>>
  ELSE LET init == Dedupe(SubSeq(seq, 1, Len(seq) - 1))
           x == seq[Len(seq)]
       IN  IF Includes(init, x) THEN init ELSE Append(init, x)

ObjectKeys(requested, merged) ==
  Dedupe(requested \o [i \in 1..Len(merged) |-> FileLanguage(merged[i])])

\* writeMessagesFile(messages, outputPath), as the artifact writeFileSync gets
writeMessagesFile(messages, outputPath) ==
  Artifact(outputPath, Code("resources", JSONstringify(O(messages)), FALSE))

writeMultipleLanguageFiles_UnderOutputPath(source, keys, outputPath) ==
  [i \in 1..Len(keys) |->
     writeMessagesFile(source[keys[i]], outputPath \o <<"/", keys[i], ".", "ts">>)]

\* writeMultipleLanguageFiles(source, outputPath): one artifact per entry
writeMultipleLanguageFiles(source, keys, outputPath) ==
  [i \in 1..Len(keys) |->
     writeMessagesFile(source[keys[i]], Dirname(outputPath) \o <<"/", keys[i], ".", "ts">>)]

\* the artifacts the synchronous pipelines write, in order
ArtifactsOf(b, o, source, keys) ==
  IF b.pipeline = "part_002"
  THEN << Artifact(OutputPathOf(b) \o <<"/", "messages", ".", "ts">>,
                   Code("messages", JSONstringify(O(source)), FALSE)) >>
  ELSE IF o.split THEN writeMultipleLanguageFiles(source, keys, OutputPathOf(b))
  ELSE << writeMessagesFile(source, OutputPathOf(b)) >>

Merged_OutputTruncatedFirst ==
  /\ pc = "merge"
  /\ LET r == IF build.pipeline = "part_002"
              THEN mergeTranslationsV1(options.defaultNamespace, languages, files)
              ELSE mergeTranslations(languages, files, options.defaultNamespace)
     IN  IF r.ok
         THEN /\ resources' = r.value
              /\ IF build.pipeline = "tolgee.ts"
                 THEN pc' = "check" /\ UNCHANGED pending
                 ELSE /\ pending' = ArtifactsOf(build, options, r.value,
                                                ObjectKeys(languages, files))
                      /\ pc' = IF pending' = <<>> THEN "return" ELSE "write"
              /\ UNCHANGED <<log, caught, settled, fs, writes>>
         ELSE /\ HandlerCatch(Error(r.error, NoText))
              /\ fs' = SetProp(fs, OutputPathOf(build),
                               Code("resources", JSONstringify(O(EmptyObject)), FALSE))
              /\ writes' = Append(writes, OutputPathOf(build))
              /\ UNCHANGED <<resources, pending>>
  /\ UNCHANGED <<build, argv, options, calls, languages, zip, files, writer>>
  /\ UNCHANGED <<mvars, cvars, tvars>>

\* mergeTranslations returns or throws; the synchronous pipelines go on to
\* their writer, tolgee.ts to the consistency check
Merged ==
  /\ pc = "merge"
  /\ LET r == IF build.pipeline = "part_002"
              THEN mergeTranslationsV1(options.defaultNamespace, languages, files)
              ELSE mergeTranslations(languages, files, options.defaultNamespace)
     IN  IF r.ok
         THEN /\ resources' = r.value
              /\ IF build.pipeline = "tolgee.ts"
                 THEN pc' = "check" /\ UNCHANGED pending
                 ELSE /\ pending' = ArtifactsOf(build, options, r.value,
                                                ObjectKeys(languages, files))
                      /\ pc' = IF pending' = <<>> THEN "return" ELSE "write"
              /\ UNCHANGED <<log, caught, settled>>
         ELSE /\ HandlerCatch(Error(r.error, NoText))
              /\ UNCHANGED <<resources, pending>>
  /\ UNCHANGED <<build, argv, options, calls, languages, zip, files, writer, fs, writes>>
  /\ UNCHANGED <<mvars, cvars, tvars>>

ConsistencyChecked_FailsOnOutliers ==
  /\ pc = "check"
  /\ LET r == detectInconsistentVariableNames(languages, resources)
     IN  IF r.outliers = EmptyObject
         THEN /\ log' = log \o r.log
              /\ pc' = "write"
              /\ UNCHANGED <<settled, caught>>
         ELSE HandlerCatch(Error("Found keys that have outlier variables", NoText))
  /\ UNCHANGED <<build, argv, options, calls, languages, zip, files,
                 resources, pending, writer, fs, writes>>
  /\ UNCHANGED <<mvars, cvars, tvars>>

\* detectInconsistentVariableNames(languages, resources) runs to its end: it
\* logs its diagnostics and returns nothing
ConsistencyChecked ==
  /\ pc = "check"
  /\ log' = log \o detectInconsistentVariableNames(languages, resources).log
  /\ pc' = "write"
  /\ UNCHANGED <<build, argv, options, calls, settled, caught, languages, zip, files,
                 resources, pending, writer, fs, writes>>
  /\ UNCHANGED <<mvars, cvars, tvars>>

\* writeFileSync(outputPath, codeStr) for the next artifact: it writes the
\* file or throws
WriteFileSync ==
  /\ pc = "write"
  /\ build.pipeline \in {"part_002", "part_003"}
  /\ pending # <<>>
  /\ writes' = Append(writes, Head(pending).path)
  /\ \/ /\ fs' = SetProp(fs, Head(pending).path, Head(pending).code)
        /\ pending' = Tail(pending)
        /\ pc' = IF pending' = <<>> THEN "return" ELSE "write"
        /\ UNCHANGED <<log, caught, settled>>
     \/ /\ HandlerCatch(Error("writeFileSync: ", NoText))
        /\ UNCHANGED <<fs, pending>>
  /\ UNCHANGED <<build, argv, options, calls, languages, zip, files, resources, writer>>
  /\ UNCHANGED <<mvars, cvars, tvars>>

\* tolgee.ts: writeResourceFile(body, outputPath, prettier) is called and not
\* awaited.  It runs to its first await: resolveConfig when prettifying,
\* otherwise up to the call of fs/promises writeFile, whose promise it drops.
WriteResourceFileCalled ==
  /\ pc = "write"
  /\ build.pipeline = "tolgee.ts"
  /\ IF options.prettier
     THEN writer' = "resolveConfig" /\ UNCHANGED writes
     ELSE writer' = "writing" /\ writes' = Append(writes, OutputPathOf(build))
  /\ pc' = "return"
  /\ UNCHANGED <<build, argv, options, calls, log, settled, caught, languages, zip, files,
                 resources, pending, fs>>
  /\ UNCHANGED <<mvars, cvars, tvars>>

\* generateTolgeeTranslations has returned: logSuccess(...)
HandlerSuccess ==
  /\ pc = "return"
  /\ log' = Append(log, LogLine("success", "Pulled translation files from Tolgee!"))
  /\ settled' = "resolved"
  /\ pc' = "done"
  /\ UNCHANGED <<build, argv, options, calls, caught, languages, zip, files, resources,
                 pending, writer, fs, writes>>
  /\ UNCHANGED <<mvars, cvars, tvars>>

\* resolveConfig(outputPath) settles, in a later turn of the event loop than
\* the one in which the handler finished: the code is formatted and writeFile
\* is called, or writeResourceFile rejects with nobody awaiting it
ResolveConfigSettled ==
  /\ writer = "resolveConfig"
  /\ pc = "done"
  /\ \/ writer' = "writing" /\ writes' = Append(writes, OutputPathOf(build))
     \/ writer' = "rejected" /\ UNCHANGED writes
  /\ UNCHANGED <<build, argv, options, pc, calls, log, settled, caught, languages, zip,
                 files, resources, pending, fs>>
  /\ UNCHANGED <<mvars, cvars, tvars>>

\* the promise of writeFile(outputPath, code) settles, in a later turn of the
\* event loop: the file is written, or the promise rejects unobserved
WriteFileSettled ==
  /\ writer = "writing"
  /\ pc = "done"
  /\ \/ /\ fs' = SetProp(fs, OutputPathOf(build),
                         Code("resources", JSONstringify(O(resources)), options.prettier))
        /\ writer' = "written"
     \/ /\ writer' = "rejected"
        /\ UNCHANGED fs
  /\ UNCHANGED <<build, argv, options, pc, calls, log, settled, caught, languages, zip,
                 files, resources, pending, writes>>
  /\ UNCHANGED <<mvars, cvars, tvars>>

Next ==
  \/ HandlerStart
  \/ CatalogueSettled
  \/ ExportSettled
  \/ Decompressed
  \/ Merged
  \/ ConsistencyChecked
  \/ WriteFileSync
  \/ WriteResourceFileCalled
  \/ HandlerSuccess
  \/ ResolveConfigSettled
  \/ WriteFileSettled

\* --------------------------------------- mergeTranslations, file by file
MergeInit ==
  /\ mLanguages \in SeqsUpTo(LanguageTags, MaxLangs)
  /\ mFiles \in SeqsUpTo(VirtualFiles, MaxFiles)
  /\ mDefault \in DefaultNamespaces
  /\ mResources = SeedResources(mLanguages)
  /\ mIndex = 0
  /\ mState = "running"
  /\ HandlerIdle
  /\ CheckIdle
  /\ TwoIdle

\* one iteration of files.forEach
MergeVisit ==
  /\ mState = "running"
  /\ mIndex < Len(mFiles)
  /\ LET r == MergeFile(mResources, mFiles[mIndex + 1], mDefault)
     IN  /\ mIndex' = mIndex + 1
         /\ IF r.ok
            THEN mResources' = r.value /\ mState' = "running"
            ELSE mResources' = mResources /\ mState' = "threw"
  /\ UNCHANGED <<mLanguages, mFiles, mDefault>>
  /\ UNCHANGED <<hvars, cvars, tvars>>

\* return resources
MergeReturn ==
  /\ mState = "running"
  /\ mIndex = Len(mFiles)
  /\ mState' = "returned"
  /\ UNCHANGED <<mLanguages, mFiles, mDefault, mResources, mIndex>>
  /\ UNCHANGED <<hvars, cvars, tvars>>

MergeNext == MergeVisit \/ MergeReturn

\* ----------------- detectInconsistentVariableNames, language by language
CheckTags == {"en", "de", "fr"}

Messages ==
  { S(<<"Hello", "{", "name", "}">>),
    S(<<"Hallo">>),
    S(<<>>),
    S(<<"Hello", "{", "name">>),
    S(<<"{", "name", "}", "{", "count", "}", "{", "name", "}">>),
    S(<<"{", "count", ",", "plural", ",", "other", "{", "#", "{", "name", "}", "}", "}">>) }

\* the trees of one language: a key at the root (flattened default
\* namespace), under a namespace, or no key at all
Roots ==
  {EmptyObject}
    \cup { [greet |-> m] : m \in Messages }
    \cup { [common |-> O([greet |-> m])] : m \in {S(<<"Hello", "{", "name", "}">>), S(<<"Hallo">>)} }
    \cup { [greet |-> S(<<"Hallo">>), bye |-> S(<<"{", "count", "}">>)] }

CheckInit ==
  /\ cLanguages \in SeqsUpTo(CheckTags, MaxLangs)
  /\ cResources \in [CheckTags -> Roots]
  /\ cOutliers = EmptyObject
  /\ cLog = <<>>
  /\ cIndex = 0
  /\ cState = "running"
  /\ HandlerIdle
  /\ MergeIdle
  /\ TwoIdle

\* one iteration of for (const language of languages)
CheckVisit ==
  /\ cState = "running"
  /\ cIndex < Len(cLanguages)
  /\ LET acc == CheckLanguage([outliers |-> cOutliers, log |-> cLog],
                              FlatResources(cLanguages, cResources),
                              cLanguages, cLanguages[cIndex + 1])
     IN  /\ cOutliers' = acc.outliers
         /\ cLog' = acc.log
  /\ cIndex' = cIndex + 1
  /\ UNCHANGED <<cLanguages, cResources, cState>>
  /\ UNCHANGED <<hvars, mvars, tvars>>

\* the report after the loop, and the return
CheckReturn ==
  /\ cState = "running"
  /\ cIndex = Len(cLanguages)
  /\ cLog' = cLog \o ReportOutliers(cOutliers)
  /\ cState' = "returned"
  /\ UNCHANGED <<cLanguages, cResources, cOutliers, cIndex>>
  /\ UNCHANGED <<hvars, mvars, tvars>>

CheckNext == CheckVisit \/ CheckReturn

\* ------------------------------ two invocations writing to one file system
\* Each invocation is a process of its own: its options, requests and merged
\* tree are private to it, and the file system is all the two share.  An
\* invocation is therefore followed from its merged tree on, write by write.
OutputPaths ==
  { <<"out", "/", "a", ".", "ts">>,
    <<"out", "/", "b", ".", "ts">>,
    <<"gen", "/", "a", ".", "ts">> }

\* the pipelines with an outputPath option, and whether they split
WriterModes ==
  { [pipeline |-> "part_003", split |-> FALSE],
    [pipeline |-> "part_003", split |-> TRUE],
    [pipeline |-> "tolgee.ts", split |-> FALSE] }

\* a merged tree and the order of its entries
MergedTrees ==
  { [source |-> [en |-> [hello |-> S(<<"hi">>)]], keys |-> <<"en">>],
    [source |-> [en |-> [hello |-> S(<<"hey">>)], de |-> [hello |-> S(<<"hallo">>)]],
     keys |-> <<"en", "de">>],
    [source |-> [en |-> [hello |-> S(<<"hey">>)], de |-> [hello |-> S(<<"hallo">>)]],
     keys |-> <<"de", "en">>],
    [source |-> EmptyObject, keys |-> <<>>] }

Invocation(outputPath, mode, tree) ==
  [outputPath |-> outputPath, pipeline |-> mode.pipeline, split |-> mode.split,
   source |-> tree.source, keys |-> tree.keys, pending |-> <<>>, state |-> "merged"]

\* the artifacts an invocation writes, in order
ArtifactsAt(inv) ==
  IF inv.pipeline = "tolgee.ts"
  THEN << Artifact(inv.outputPath,
                   Code("resources", JSONstringify(O(inv.source)), FALSE)) >>
  ELSE IF inv.split
       THEN writeMultipleLanguageFiles(inv.source, inv.keys, inv.outputPath)
       ELSE << writeMessagesFile(inv.source, inv.outputPath) >>

TwoInit ==
  /\ \E p1 \in OutputPaths, p2 \in OutputPaths,
        m1 \in WriterModes, m2 \in WriterModes,
        t1 \in MergedTrees, t2 \in MergedTrees :
        /\ p1 # p2
        /\ invocations = << Invocation(p1, m1, t1), Invocation(p2, m2, t2) >>
  /\ disk = NoFiles
  /\ diskWrites = <<>>
  /\ HandlerIdle
  /\ MergeIdle
  /\ CheckIdle

\* the invocation enters its writer
WriterEntered(i) ==
  /\ invocations[i].state = "merged"
  /\ LET artifacts == ArtifactsAt(invocations[i])
     IN  invocations' =
           [invocations EXCEPT ![i].pending = artifacts,
                               ![i].state = IF artifacts = <<>> THEN "returned"
                                            ELSE "writing"]
  /\ UNCHANGED <<disk, diskWrites>>
  /\ UNCHANGED <<hvars, mvars, cvars>>

\* the next write of the invocation: the file is written, or the write fails
\* and the invocation ends
FileWritten(i) ==
  /\ invocations[i].state = "writing"
  /\ LET artifact == Head(invocations[i].pending)
         rest == Tail(invocations[i].pending)
     IN  \/ /\ disk' = SetProp(disk, artifact.path, artifact.code)
            /\ diskWrites' = Append(diskWrites, [by |-> i, path |-> artifact.path])
            /\ invocations' =
                 [invocations EXCEPT ![i].pending = rest,
                                     ![i].state = IF rest = <<>> THEN "returned"
                                                  ELSE "writing"]
         \/ /\ invocations' = [invocations EXCEPT ![i].state = "failed"]
            /\ UNCHANGED <<disk, diskWrites>>
  /\ UNCHANGED <<hvars, mvars, cvars>>

TwoNext == \E i \in 1..2 : WriterEntered(i) \/ FileWritten(i)

vars == <<hvars, mvars, cvars, tvars>>

Spec == Init /\ [][Next]_vars

SpecMerge == MergeInit /\ [][MergeNext]_vars

SpecCheck == CheckInit /\ [][CheckNext]_vars

SpecTwo == TwoInit /\ [][TwoNext]_vars

\* =================================================================== claims
\* ---- vocabulary of the claims, stated without the operators of the code
IsCatalogueCall(call) == call.path = <<"/projects/languages">>
IsExportCall(call) == call.path # <<>> /\ call.path[1] = "/projects/export"

HasLog(level) == \E i \in 1..Len(log) : log[i].level = level

\* the catalogue has the expected shape: an object with an `_embedded` object
\* holding a `languages` sequence
HasCatalogueShape(body) ==
  /\ body.raw = "json"
  /\ body.data[1] = "o"
  /\ "_embedded" \in DOMAIN body.data[2]
  /\ body.data[2]["_embedded"][1] = "o"
  /\ "languages" \in DOMAIN body.data[2]["_embedded"][2]
  /\ body.data[2]["_embedded"][2]["languages"][1] = "a"

\* the tags of a catalogue of the expected shape
KnownTags(body) ==
  LET entries == body.data[2]["_embedded"][2]["languages"][2]
  IN  { entries[i][2]["tag"][2] :
          i \in { j \in 1..Len(entries) :
                    entries[j][1] = "o" /\ "tag" \in DOMAIN entries[j][2] } }

Requested == { options.languages[i] : i \in 1..Len(options.languages) }

\* the catalogue call returned a response of the success range
CatalogueReturned ==
  /\ Len(calls) >= 1
  /\ calls[1].response # <<>>
  /\ calls[1].response[1].status \in 200..299

CatalogueBody == calls[1].response[1].body

NonexistentLanguage == "Failed trying to fetch non-existing language. "
FailedRetrieving == "Failed retrieving languages. "

\* C1: an export request is only ever issued after the catalogue request has
\* returned a catalogue of the expected shape that knows every requested
\* language; a run whose validation failed has issued no export request.
C1_ExportOnlyAfterValidation ==
  \A i \in 1..Len(calls) :
    IsExportCall(calls[i]) =>
      /\ i = 2
      /\ IsCatalogueCall(calls[1])
      /\ CatalogueReturned
      /\ HasCatalogueShape(CatalogueBody)
      /\ (build.pipeline # "part_002" => Requested \subseteq KnownTags(CatalogueBody))

C1_Witness ==
  /\ Len(calls) = 2
  /\ IsExportCall(calls[2])
  /\ options.languages = <<"en", "de">>

\* C2: a failure of the configuration checks, the validation, the export
\* call, the decompression or the merge ends the run with that error, with
\* no artifact written or attempted, and none is written afterwards.
C2_NoWriteAfterEarlyFailure ==
  [][ /\ (pc \in {"start", "languages", "export", "decompress", "merge", "check"}
            /\ pc' = "done")
          => (caught' # <<>> /\ fs' = NoFiles /\ writes' = <<>> /\ writer' = "idle")
      /\ (pc = "done" /\ caught # <<>> /\ writes = <<>>)
          => (fs' = fs /\ writes' = writes /\ writer' = writer /\ pc' = "done")
    ]_vars

C2_Witness ==
  /\ pc = "done"
  /\ caught # <<>>
  /\ caught[1].message = "TypeError"
  /\ Len(calls) = 2
  /\ fs = NoFiles

\* C3: once generateTolgeeTranslations has completed without an error the
\* write of every artifact has completed, and a success line in the log
\* means the same.
C3_SuccessOnlyAfterWrite ==
  ((pc \in {"return", "done"} /\ caught = <<>>) \/ HasLog("success")) =>
    /\ pending = <<>>
    /\ writer \in {"idle", "written"}
    /\ \A i \in 1..Len(writes) : writes[i] \in DOMAIN fs
    /\ (~options.split =>
          \/ OutputPathOf(build) \in DOMAIN fs
          \/ (OutputPathOf(build) \o <<"/", "messages", ".", "ts">>) \in DOMAIN fs)

\* C4: a finished run that failed anywhere has logged the error indicator,
\* has rejected, and has not logged the success indicator; a run logs the
\* success indicator only if no stage failed; no run logs both.
C4_FailureLoggedAndRethrown ==
  LET failed == caught # <<>> \/ writer = "rejected"
  IN  /\ (pc = "done" /\ failed) =>
            (HasLog("error") /\ settled = "rejected" /\ ~HasLog("success"))
      /\ HasLog("success") => ~failed
      /\ ~(HasLog("success") /\ HasLog("error"))

\* C5: with a missing API key, an empty namespace list, or a non-null default
\* namespace outside the requested namespaces, the run ends with an error and
\* has issued no request and written no file.
C5_ConfigErrorBeforeNetwork ==
  ( \/ options.apiKey = NULL
    \/ options.namespaces = <<>>
    \/ /\ options.defaultNamespace # NULL
       /\ \A i \in 1..Len(options.namespaces) :
            options.namespaces[i] # options.defaultNamespace )
  => /\ calls = <<>>
     /\ fs = NoFiles
     /\ writes = <<>>
     /\ writer = "idle"
     /\ pc \in {"start", "done"}
     /\ (pc = "done" => caught # <<>> /\ HasLog("error") /\ ~HasLog("success"))

C5_Witness ==
  /\ pc = "done"
  /\ options.apiKey = "key"
  /\ options.namespaces = <<"common">>
  /\ options.defaultNamespace = "messages"
  /\ HasLog("error")

\* ---- mergeTranslations
VisitedFile == mFiles[mIndex]

\* C6: when the file just visited parses and its language was not requested,
\* the merge has not thrown and the tree has that language as an entry
\* holding the file's messages: at the language root when the file's
\* namespace is the default one, under the namespace otherwise.
C6_UnrequestedLanguageIsAdded ==
  ( /\ mIndex >= 1
    /\ HasFileName(VisitedFile)
    /\ VisitedFile.data.json
    /\ \A i \in 1..Len(mLanguages) : mLanguages[i] # FileLanguage(VisitedFile) )
  => /\ mState # "threw"
     /\ FileLanguage(VisitedFile) \in DOMAIN mResources
     /\ LET root == mResources[FileLanguage(VisitedFile)]
            messages == VisitedFile.data.value
        IN  IF mDefault \notin {NULL, ""} /\ mDefault = FileNamespace(VisitedFile)
            THEN \A k \in DOMAIN messages : k \in DOMAIN root /\ root[k] = messages[k]
            ELSE /\ FileNamespace(VisitedFile) \in DOMAIN root
                 /\ root[FileNamespace(VisitedFile)] = O(messages)

\* ---- validateLanguages
\* C7: on a catalogue of the expected shape validation succeeds (the export
\* request follows) exactly when every requested language is a tag of the
\* catalogue, and otherwise the run ends with the nonexistent-language error.
C7_ValidIffSubsetOfKnown ==
  ( /\ build.pipeline # "part_002"
    /\ CatalogueReturned
    /\ HasCatalogueShape(CatalogueBody) )
  => IF Requested \subseteq KnownTags(CatalogueBody)
     THEN /\ Len(calls) = 2
          /\ IsExportCall(calls[2])
          /\ (caught # <<>> => caught[1].message # NonexistentLanguage)
     ELSE /\ Len(calls) = 1
          /\ pc = "done"
          /\ caught # <<>>
          /\ caught[1].message = NonexistentLanguage

C7_Witness ==
  /\ build.pipeline # "part_002"
  /\ options.languages = <<"en", "xx">>
  /\ CatalogueReturned
  /\ HasCatalogueShape(CatalogueBody)
  /\ KnownTags(CatalogueBody) = {"en", "de"}
  /\ caught # <<>>
  /\ caught[1].message = NonexistentLanguage

\* every string inside a JSON value
RECURSIVE StringsIn(_)
StringsIn(json) ==
  IF json[1] = "s" THEN {json[2]}
  ELSE IF json[1] = "o"
       THEN UNION { StringsIn(json[2][k]) : k \in DOMAIN json[2] }
       ELSE IF json[1] = "a"
            THEN UNION { StringsIn(json[2][i]) : i \in 1..Len(json[2]) }
            ELSE {}

\* C8: the nonexistent-language error names exactly the requested tags the
\* catalogue does not know.
C8_ErrorNamesOffendingTags ==
  (caught # <<>> /\ caught[1].message = NonexistentLanguage)
  => LET named == IF caught[1].detail.raw = "json"
                  THEN StringsIn(caught[1].detail.data) \cap RequestTags
                  ELSE {}
     IN  named = Requested \ KnownTags(CatalogueBody)

\* C9: a catalogue response of the success range whose JSON lacks the
\* expected shape ends the run, whatever was requested, with the
\* malformed-response error, which is neither the error of a non-success
\* status nor the nonexistent-language error; no export request is issued.
C9_MalformedCatalogueError ==
  ( /\ CatalogueReturned
    /\ CatalogueBody.raw = "json"
    /\ ~HasCatalogueShape(CatalogueBody) )
  => /\ Len(calls) = 1
     /\ pc = "done"
     /\ caught # <<>>
     /\ caught[1].message = FailedRetrieving
     /\ caught[1].message # NonexistentLanguage
     /\ \A body \in ErrorBodies \cup CatalogueBodies : caught[1] # [message |-> "", detail |-> body]

C9_Witness ==
  /\ build.pipeline # "part_002"
  /\ options.languages = <<>>
  /\ CatalogueReturned
  /\ CatalogueBody = JsonText(O([_embedded |-> O([languages |-> S("en")])]))
  /\ caught # <<>>
  /\ caught[1].message = FailedRetrieving

\* ---- tolgeeApi
\* C10: a call whose response is outside the success range threw an error
\* made of the raw body, read the body as text only, handed nothing to its
\* caller and ended the run with that error; a call whose response is in the
\* success range returned that very response.
C10_NonSuccessThrowsRawBody ==
  \A i \in 1..Len(calls) :
    calls[i].response # <<>> =>
      LET response == calls[i].response[1]
      IN  IF response.status \in 200..299
          THEN calls[i].state = "returned" /\ calls[i].value = <<response>>
          ELSE /\ calls[i].state = "threw"
               /\ calls[i].error = << [message |-> "", detail |-> response.body] >>
               /\ calls[i].reads = <<"text">>
               /\ calls[i].value = <<>>
               /\ i = Len(calls)
               /\ caught = calls[i].error
               /\ pc = "done"

C10_Witness ==
  /\ Len(calls) = 2
  /\ IsExportCall(calls[2])
  /\ calls[2].response # <<>>
  /\ calls[2].response[1].status = 401
  /\ calls[2].response[1].body = PlainText("Unauthorized")
  /\ calls[2].state = "threw"

\* ---- mergeTranslations, one file at a time
\* the step visits a file: the file the forEach hands to its callback
Visits == mState = "running" /\ mIndex' = mIndex + 1
NextFile == mFiles[mIndex + 1]

Parses(file) == HasFileName(file) /\ file.data.json

\* the file belongs to the default namespace, which is neither null nor empty
InDefaultNamespace(file) ==
  mDefault \notin {NULL, ""} /\ mDefault = FileNamespace(file)

\* the language's root in a tree, empty when the tree has no such language
RootOf(tree, language) ==
  IF language \in DOMAIN tree THEN tree[language] ELSE EmptyObject

\* C11 (as amended): visiting a parsable file of the default namespace puts
\* each of its top-level keys k at tree[language][k], and the tree has a
\* tree[language][namespace] entry afterwards only if it had one before or
\* the file itself has a top-level key named like the namespace.
C11_FlattenedAtLanguageRoot ==
  [][ (Visits /\ Parses(NextFile) /\ InDefaultNamespace(NextFile)) =>
        LET language == FileLanguage(NextFile)
            namespace == FileNamespace(NextFile)
            messages == NextFile.data.value
            before == RootOf(mResources, language)
        IN  /\ mState' = "running"
            /\ language \in DOMAIN mResources'
            /\ \A k \in DOMAIN messages :
                 /\ k \in DOMAIN mResources'[language]
                 /\ mResources'[language][k] = messages[k]
            /\ namespace \in DOMAIN mResources'[language]
                 => (namespace \in DOMAIN before \/ namespace \in DOMAIN messages)
    ]_vars

\* C11 (as stated): visiting a parsable file of the default namespace puts
\* each of its top-level keys k at tree[language][k] and never creates a
\* tree[language][namespace] entry.
C11_NoNamespaceEntryCreated ==
  [][ (Visits /\ Parses(NextFile) /\ InDefaultNamespace(NextFile)) =>
        LET language == FileLanguage(NextFile)
            namespace == FileNamespace(NextFile)
            messages == NextFile.data.value
            before == RootOf(mResources, language)
        IN  /\ mState' = "running"
            /\ language \in DOMAIN mResources'
            /\ \A k \in DOMAIN messages :
                 /\ k \in DOMAIN mResources'[language]
                 /\ mResources'[language][k] = messages[k]
            /\ namespace \in DOMAIN mResources'[language]
                 => namespace \in DOMAIN before
    ]_vars

C11_Witness ==
  /\ mState = "returned"
  /\ mLanguages = <<"en">>
  /\ mDefault = "common"
  /\ mFiles = << [path |-> <<"common", "/", "en", ".", "json">>,
                  data |-> Json([hello |-> S(<<"hi">>)])] >>
  /\ mResources = [l \in {"en"} |-> [hello |-> S(<<"hi">>)]]

\* C12: visiting a parsable file whose namespace is not the default one (or
\* with a null or empty default) stores the file's whole content at
\* tree[language][namespace], whatever was there, and leaves every other key
\* of tree[language] and every other language as it was.
C12_StoredUnderNamespace ==
  [][ (Visits /\ Parses(NextFile) /\ ~InDefaultNamespace(NextFile)) =>
        LET language == FileLanguage(NextFile)
            namespace == FileNamespace(NextFile)
            messages == NextFile.data.value
            before == RootOf(mResources, language)
        IN  /\ mState' = "running"
            /\ DOMAIN mResources' = DOMAIN mResources \cup {language}
            /\ DOMAIN mResources'[language] = DOMAIN before \cup {namespace}
            /\ mResources'[language][namespace] = O(messages)
            /\ \A k \in DOMAIN before \ {namespace} :
                 mResources'[language][k] = before[k]
            /\ \A other \in DOMAIN mResources \ {language} :
                 mResources'[other] = mResources[other]
    ]_vars

\* C13: visiting a parsable file of the default namespace merges it shallowly
\* into the language root: a key of the file takes the file's whole value,
\* also when the root had that key, and a key the file does not have keeps
\* its value; the root has no other keys.
C13_ShallowLastWriteWins ==
  [][ (Visits /\ Parses(NextFile) /\ InDefaultNamespace(NextFile)) =>
        LET language == FileLanguage(NextFile)
            messages == NextFile.data.value
            before == RootOf(mResources, language)
            after == RootOf(mResources', language)
        IN  /\ DOMAIN after = DOMAIN before \cup DOMAIN messages
            /\ \A k \in DOMAIN messages : after[k] = messages[k]
            /\ \A k \in DOMAIN before \ DOMAIN messages : after[k] = before[k]
    ]_vars

\* a conflicting key (hello) took the later file's value, a key of the
\* earlier file only (messages) survived
C13_Witness ==
  /\ mIndex = 2
  /\ mDefault = "common"
  /\ mFiles[1] = [path |-> <<"common", "/", "en", ".", "json">>,
                  data |-> Json([hello |-> O([a |-> S(<<"hallo">>)]), messages |-> S(<<"m">>)])]
  /\ mFiles[2] = [path |-> <<"common", "/", "en", ".", "json">>,
                  data |-> Json([hello |-> O([b |-> S(<<"hi">>)])])]
  /\ "en" \in DOMAIN mResources
  /\ mResources["en"] = [hello |-> O([b |-> S(<<"hi">>)]), messages |-> S(<<"m">>)]

\* C14: visiting the entry just visited once more changes nothing; and after
\* a later parsable entry for a path visited before, the tree holds the later
\* entry's values: at the language root for the default namespace, under the
\* namespace otherwise.
C14_DuplicateEntryIdempotent ==
  [][ Visits =>
        /\ (mIndex >= 1 /\ mFiles[mIndex] = NextFile)
             => (mResources' = mResources /\ mState' = "running")
        /\ ( /\ \E i \in 1..mIndex : mFiles[i].path = NextFile.path
             /\ Parses(NextFile) )
             => LET language == FileLanguage(NextFile)
                    namespace == FileNamespace(NextFile)
                    messages == NextFile.data.value
                    after == RootOf(mResources', language)
                IN  /\ mState' = "running"
                    /\ IF InDefaultNamespace(NextFile)
                       THEN \A k \in DOMAIN messages :
                              k \in DOMAIN after /\ after[k] = messages[k]
                       ELSE namespace \in DOMAIN after /\ after[namespace] = O(messages)
    ]_vars

\* the same path twice with different contents, outside the default namespace
C14_Witness ==
  /\ mIndex = 2
  /\ mState = "running"
  /\ mDefault = "common"
  /\ mFiles[1] = [path |-> <<"messages", "/", "en", ".", "json">>,
                  data |-> Json([hello |-> S(<<"hi">>)])]
  /\ mFiles[2] = [path |-> <<"messages", "/", "en", ".", "json">>,
                  data |-> Json([hello |-> O([b |-> S(<<"hi">>)])])]
  /\ mResources["en"]["messages"] = O([hello |-> O([b |-> S(<<"hi">>)])])

\* ---- the export query
\* the parameters of a query string: what stands between the "&" after the "?"
ParamsOf(query) == Split(Tail(query), "&")

\* C15: the path of every export request is /projects/export, a "?", and
\* parameters separated by single "&": first, when languages were requested,
\* one `languages=` parameter holding the requested tags comma-separated in
\* order, then one `filterNamespace=<ns>` parameter per requested namespace
\* in order; with no requested language there is no languages parameter.
C15_ExportQueryShape ==
  \A i \in 1..Len(calls) :
    IsExportCall(calls[i]) =>
      LET query == Tail(calls[i].path)
          params == ParamsOf(query)
          ns == options.namespaces
          ls == options.languages
          first == IF ls = <<>> THEN 0 ELSE 1
      IN  /\ query # <<>>
          /\ query[1] = "?"
          /\ Len(params) = first + Len(ns)
          /\ \A j \in 1..Len(ns) : params[first + j] = <<"filterNamespace", "=", ns[j]>>
          /\ ls # <<>> =>
               /\ Len(params[1]) >= 3
               /\ params[1][1] = "languages"
               /\ params[1][2] = "="
               /\ Split(SubSeq(params[1], 3, Len(params[1])), ",")
                    = [k \in 1..Len(ls) |-> <<ls[k]>>]
          /\ \A j \in 1..Len(params) :
               (params[j] # <<>> /\ params[j][1] = "languages") => (j = 1 /\ ls # <<>>)

C15_Witness ==
  /\ Len(calls) = 2
  /\ options.namespaces = <<"common", "messages">>
  /\ options.languages = <<"de", "en">>
  /\ calls[2].path = <<"/projects/export", "?", "languages", "=", "de", ",", "en", "&",
                       "filterNamespace", "=", "common", "&",
                       "filterNamespace", "=", "messages">>

\* ---- detectInconsistentVariableNames
CheckRequested == { cLanguages[i] : i \in 1..Len(cLanguages) }

\* the flattened keys, as paths
CheckKeySpace == { <<"greet">>, <<"bye">>, <<"common">>, <<"common", "greet">> }
VariableNames == {"name", "count"}

\* the leaf a path leads to in a JSON value, when it leads to one
RECURSIVE LeafAt(_, _)
LeafAt(node, path) ==
  IF path = <<>>
  THEN IF node[1] = "o" /\ DOMAIN node[2] # {} THEN <<>> ELSE <<node>>
  ELSE IF node[1] = "o" /\ Head(path) \in DOMAIN node[2]
       THEN LeafAt(node[2][Head(path)], Tail(path))
       ELSE <<>>

\* the language has a non-empty message at the key
HasMessageAt(tree, language, key) ==
  LET leaf == LeafAt(O(tree[language]), key)
  IN  leaf # <<>> /\ leaf[1][1] = "s" /\ leaf[1][2] # <<>>

MessageAt(tree, language, key) == LeafAt(O(tree[language]), key)[1]

\* the argument names anywhere in a parsed pattern, the option sub-patterns
\* of plural and select included
RECURSIVE ArgumentsIn(_)
ArgumentsIn(elements) ==
  UNION { (IF elements[i].type \notin {"literal", "pound"}
           THEN {elements[i].value} ELSE {})
            \cup (IF "options" \in DOMAIN elements[i]
                  THEN UNION { ArgumentsIn(elements[i].options[o].value) :
                                 o \in 1..Len(elements[i].options) }
                  ELSE {})
          : i \in 1..Len(elements) }

\* the message references the variable; a message that does not parse
\* references none
References(message, v) ==
  /\ parse(message).ok
  /\ v \in ArgumentsIn(parse(message).value)

RecordedIn(outliers, key, v) ==
  key \in DOMAIN outliers /\ \E i \in 1..Len(outliers[key]) : outliers[key][i] = v

\* the variables recorded under a key
RecordedUnder(outliers, key) ==
  IF key \in DOMAIN outliers
  THEN { outliers[key][i] : i \in 1..Len(outliers[key]) }
  ELSE {}

Reverse(seq) == [i \in 1..Len(seq) |-> seq[Len(seq) + 1 - i]]

\* C16: when the check has returned, a variable v is recorded under key k
\* exactly when two requested languages A and B exist such that A's message
\* at k references v, B has a non-empty message at k and B's message does
\* not reference v; v is recorded once; and the check of the languages in
\* reverse order records the same variables under the same keys.
C16_OutliersIffReferencedAndMissing ==
  cState = "returned" =>
    /\ \A k \in CheckKeySpace \cup DOMAIN cOutliers :
         \A v \in VariableNames \cup RecordedUnder(cOutliers, k) :
           RecordedIn(cOutliers, k, v) <=>
             \E a \in CheckRequested, b \in CheckRequested :
               /\ HasMessageAt(cResources, a, k)
               /\ References(MessageAt(cResources, a, k), v)
               /\ HasMessageAt(cResources, b, k)
               /\ ~References(MessageAt(cResources, b, k), v)
    /\ \A k \in DOMAIN cOutliers :
         \A i, j \in 1..Len(cOutliers[k]) : cOutliers[k][i] = cOutliers[k][j] => i = j
    /\ LET reversed == detectInconsistentVariableNames(Reverse(cLanguages), cResources).outliers
       IN  /\ DOMAIN reversed = DOMAIN cOutliers
           /\ \A k \in DOMAIN cOutliers :
                RecordedUnder(reversed, k) = RecordedUnder(cOutliers, k)

\* C17: a key with a non-empty message in at most one requested language is
\* never a key of the outliers, at any point of the check.
C17_SingleLanguageKeyNeverOutlier ==
  \A k \in CheckKeySpace \cup DOMAIN cOutliers :
    Cardinality({ l \in CheckRequested : HasMessageAt(cResources, l, k) }) <= 1
      => k \notin DOMAIN cOutliers

\* de has an empty message where en references a variable
C17_Witness ==
  /\ cState = "returned"
  /\ cLanguages = <<"en", "de">>
  /\ cResources["en"] = [greet |-> S(<<"Hello", "{", "name", "}">>)]
  /\ cResources["de"] = [greet |-> S(<<>>)]
  /\ cOutliers = EmptyObject

\* ---- the consistency check in the pipeline
PipelineKeySpace ==
  { <<k>> : k \in {"greet", "hello", "x"} }
    \cup { <<ns, k>> : ns \in Namespaces, k \in {"greet", "hello", "x"} }

PipelineRequested == { languages[i] : i \in 1..Len(languages) }

\* the language has a non-empty message at the key and the message does not parse
FailsToParseAt(tree, language, key) ==
  /\ HasMessageAt(tree, language, key)
  /\ ~parse(MessageAt(tree, language, key)).ok

\* the placeholders at the top of a pattern that parses
TopLevelArguments(message) ==
  LET r == parse(message)
  IN  IF ~r.ok THEN {}
      ELSE { r.value[i].value :
               i \in { j \in 1..Len(r.value) : r.value[j].type = "argument" } }

\* the outlier map of the report among the lines, empty without a report
ReportedOutliers(lines) ==
  IF \E i \in 1..Len(lines) : lines[i].level = "info"
  THEN lines[CHOOSE i \in 1..Len(lines) : lines[i].level = "info"].args[1][3]
  ELSE EmptyObject

\* C18: the step of the consistency check never ends the run: it goes on to
\* the writer with no error, every requested message that fails to parse is
\* reported in an error line carrying the message, such a message counts as
\* referencing no variable (a key whose non-empty messages all fail to parse
\* has no outliers, and against a failing message every placeholder of
\* another language's message at that key is an outlier), and the writer is
\* then called.
C18_ParseFailureIsNonFatal ==
  [][ /\ pc = "check" =>
           /\ pc' = "write"
           /\ caught' = <<>>
           /\ settled' = "pending"
           /\ \A l \in PipelineRequested, k \in PipelineKeySpace :
                FailsToParseAt(resources, l, k) =>
                  /\ \E i \in (Len(log) + 1)..Len(log') :
                       /\ log'[i].level = "error"
                       /\ log'[i].args = <<MessageAt(resources, l, k)>>
                  /\ \A a \in PipelineRequested :
                       HasMessageAt(resources, a, k) =>
                         \A v \in TopLevelArguments(MessageAt(resources, a, k)) :
                           RecordedIn(ReportedOutliers(log'), k, v)
           /\ \A k \in PipelineKeySpace :
                (\A l \in PipelineRequested :
                   HasMessageAt(resources, l, k) => FailsToParseAt(resources, l, k))
                  => k \notin DOMAIN ReportedOutliers(log')
      /\ (pc = "write" /\ build.pipeline = "tolgee.ts") =>
           (writer' # "idle" /\ caught' = <<>>)
    ]_vars

\* en's message fails to parse, de's references a variable; the writer ran
C18_Witness ==
  /\ build.pipeline = "tolgee.ts"
  /\ languages = <<"en", "de">>
  /\ DOMAIN resources = {"en", "de"}
  /\ FailsToParseAt(resources, "en", <<"greet">>)
  /\ \E i \in 1..Len(log) : log[i].message = "Message:"
  /\ RecordedIn(ReportedOutliers(log), <<"greet">>, "name")
  /\ writer = "written"
  /\ caught = <<>>

\* C19: the step of the consistency check leaves the tree, the files and the
\* run's outcome as they are, whatever it reports; and a file the newest
\* pipeline writes is the serialisation of what mergeTranslations returned,
\* at the output path.
C19_CheckIsDiagnosticOnly ==
  [][ /\ pc = "check" =>
           /\ resources' = resources
           /\ fs' = fs /\ writes' = writes /\ writer' = writer
           /\ caught' = <<>> /\ settled' = settled
           /\ pc' = "write"
      /\ (build.pipeline = "tolgee.ts" /\ fs' # fs) =>
           LET merged == mergeTranslations(options.languages, files,
                                           options.defaultNamespace)
           IN  /\ merged.ok
               /\ DOMAIN fs' = {OutputPathOf(build)}
               /\ fs'[OutputPathOf(build)].body = JsonText(O(merged.value))
    ]_vars

\* outliers were reported, and the run went on to write and to succeed
C19_Witness ==
  /\ build.pipeline = "tolgee.ts"
  /\ ReportedOutliers(log) # EmptyObject
  /\ OutputPathOf(build) \in DOMAIN fs
  /\ HasLog("success")
  /\ ~options.prettier

\* ---- the artifact writers
\* the directory the output path lies in
OutputDirectory == <<"node_modules", "/", "tolgee-puller">>

PerLanguagePath(language) == OutputDirectory \o <<"/", language, ".", "ts">>

\* how often a path was written
TimesWritten(path) == Cardinality({ i \in 1..Len(writes) : writes[i] = path })

\* C20: when a run of the pipeline with the split writer has completed
\* without error: in split mode the files written are exactly one per
\* language of the merged tree, at <directory of outputPath>/<tag>.ts, each
\* written once and holding that language's subtree only, and the output
\* path itself is not written; in single-file mode the one file written is
\* the output path, written once and holding the whole tree.
C20_SplitWritesOnePerLanguage ==
  (build.pipeline = "part_003" /\ pc = "done" /\ caught = <<>>) =>
    IF options.split
    THEN /\ DOMAIN fs = { PerLanguagePath(l) : l \in DOMAIN resources }
         /\ \A l \in DOMAIN resources :
              /\ fs[PerLanguagePath(l)].body = JsonText(O(resources[l]))
              /\ TimesWritten(PerLanguagePath(l)) = 1
         /\ Len(writes) = Cardinality(DOMAIN resources)
         /\ OutputPathOf(build) \notin DOMAIN fs
    ELSE /\ DOMAIN fs = {OutputPathOf(build)}
         /\ fs[OutputPathOf(build)].body = JsonText(O(resources))
         /\ writes = <<OutputPathOf(build)>>

C20_Witness ==
  /\ options.split
  /\ pc = "done"
  /\ caught = <<>>
  /\ DOMAIN resources = {"en", "de"}
  /\ DOMAIN fs = { PerLanguagePath("en"), PerLanguagePath("de") }
  /\ fs[PerLanguagePath("de")].body = JsonText(O([hello |-> S(<<"hallo">>)]))
  /\ fs[PerLanguagePath("en")].body = JsonText(O([hello |-> S(<<"hi">>)]))

\* ---- the end of a run
\* the handler has finished and no write it started is still in flight
RunEnded == pc = "done" /\ writer \notin {"resolveConfig", "writing"}

\* the one file of a run that does not split
SingleFilePaths ==
  { OutputPathOf(build), OutputPathOf(build) \o <<"/", "messages", ".", "ts">> }

\* C21: at the end of a run either nothing has been written, or every
\* artifact of the run has been written with the run's data: in split mode
\* one file per language of the merged tree, otherwise the single file with
\* the whole tree.
C21_AllOrNothingWritten ==
  RunEnded =>
    \/ fs = NoFiles
    \/ IF options.split
       THEN /\ DOMAIN fs = { PerLanguagePath(l) : l \in DOMAIN resources }
            /\ \A l \in DOMAIN resources :
                 fs[PerLanguagePath(l)].body = JsonText(O(resources[l]))
       ELSE /\ Cardinality(DOMAIN fs) = 1
            /\ DOMAIN fs \subseteq SingleFilePaths
            /\ \A p \in DOMAIN fs : fs[p].body = JsonText(O(resources))

\* a stage of the run has failed
StageFailed == caught # <<>> \/ writer = "rejected"

\* how many requests the run has issued to an endpoint
TimesRequested(IsEndpoint(_)) ==
  Cardinality({ i \in 1..Len(calls) : IsEndpoint(calls[i]) })

\* C23: a run requests the language catalogue at most once and the export
\* at most once, and once a stage has failed it issues no request, writes
\* no file and attempts no write: the failure ends the run.
C23_NoRetries ==
  [][ /\ TimesRequested(IsCatalogueCall)' <= 1
      /\ TimesRequested(IsExportCall)' <= 1
      /\ StageFailed =>
            /\ calls' = calls
            /\ fs' = fs
            /\ writes' = writes
            /\ pc' = "done"
            /\ writer' \in {"idle", "rejected"}
    ]_vars

C23_Witness ==
  /\ StageFailed
  /\ pc = "done"
  /\ TimesRequested(IsCatalogueCall) = 1
  /\ TimesRequested(IsExportCall) = 1
  /\ calls[2].state = "threw"
  /\ fs = NoFiles

\* ---- two concurrent invocations
BothCompleted ==
  /\ invocations # <<>>
  /\ \A i \in 1..2 : invocations[i].state \in {"returned", "failed"}

\* the invocations that have written a path
WritersOf(path) ==
  { diskWrites[k].by : k \in { j \in 1..Len(diskWrites) : diskWrites[j].path = path } }

\* the data of an invocation as a file can hold it: the whole tree, or one
\* language's subtree
DataOf(inv) ==
  {JsonText(O(inv.source))}
    \cup { JsonText(O(inv.source[l])) : l \in DOMAIN inv.source }

\* C22: two concurrent invocations have different output paths; after both
\* have completed, under every interleaving, every file on disk was written
\* by one invocation only and holds that invocation's data, whether the
\* invocations split or not.
C22_ConcurrentRunsDoNotInteract ==
  BothCompleted =>
    \A path \in DOMAIN disk :
      /\ Cardinality(WritersOf(path)) = 1
      /\ \A i \in WritersOf(path) : disk[path].body \in DataOf(invocations[i])

\* ---- the empty language list
\* the languages of the files of the archive
ArchiveLanguages == { FileLanguage(files[i]) : i \in 1..Len(files) }

\* both requests were answered as a well-formed server answers them: a
\* catalogue of the expected shape, and an archive of JSON files
WellFormedServer ==
  /\ Len(calls) = 2
  /\ CatalogueReturned
  /\ HasCatalogueShape(CatalogueBody)
  /\ calls[2].response # <<>>
  /\ calls[2].response[1].status \in 200..299
  /\ calls[2].response[1].body.raw = "zip"
  /\ \A i \in 1..Len(calls[2].response[1].body.files) :
       calls[2].response[1].body.files[i].data.json

Mentions(query, token) == \E k \in 1..Len(query) : query[k] = token

\* C24: with an empty list of requested languages: a catalogue of the
\* expected shape passes validation and the export is requested, the export
\* request has no language filter, and with a well-formed server the run
\* gets past the merge without an error from it, with every language of the
\* archive in the merged tree that the artifact is written from, whatever
\* the namespace of the files.
C24_EmptyLanguagesSucceeds ==
  (options.languages = <<>> /\ pc # "off") =>
    /\ (CatalogueReturned /\ HasCatalogueShape(CatalogueBody)) =>
          (Len(calls) = 2 /\ IsExportCall(calls[2]))
    /\ \A i \in 1..Len(calls) :
         IsExportCall(calls[i]) => ~Mentions(calls[i].path, "languages")
    /\ (WellFormedServer /\ pc \in {"check", "write", "return", "done"}) =>
          /\ caught = <<>> \/ caught[1].message = "writeFileSync: "
          /\ ArchiveLanguages \subseteq DOMAIN resources

\* ---- the order of the archive
DistinctPaths(list) ==
  \A i, j \in 1..Len(list) : i # j => list[i].path # list[j].path

\* C25: for files with pairwise distinct paths the merge does not depend on
\* their order: when the merge of the list has ended, the merge of the list
\* in the opposite order ends the same way with the same tree.
C25_MergeIsOrderIndependent ==
  (mState \in {"returned", "threw"} /\ DistinctPaths(mFiles)) =>
    LET r == mergeTranslations(mLanguages, Reverse(mFiles), mDefault)
    IN  IF mState = "returned"
        THEN r.ok /\ r.value = mResources
        ELSE ~r.ok

\* ---- extractVariableNames
\* the names in a sequence
NamesIn(names) == { names[i] : i \in 1..Len(names) }

\* C26: for every message the check has visited that parses, the names
\* extracted from it are the argument names referenced anywhere in the
\* pattern, those inside the options of a plural or select included, and
\* literal text contributes none.
C26_ExtractsEveryArgument ==
  \A i \in 1..cIndex : \A key \in CheckKeySpace :
    (HasMessageAt(cResources, cLanguages[i], key)
       /\ parse(MessageAt(cResources, cLanguages[i], key)).ok) =>
      LET message == MessageAt(cResources, cLanguages[i], key)
          names == NamesIn(extractVariableNames(message).names)
      IN  /\ ArgumentsIn(parse(message).value) \subseteq names
          /\ names \subseteq ArgumentsIn(parse(message).value)

\* ---- the default namespace of the handler
\* the configuration checks have passed and the pipeline has been called
PipelineCalled == pc \notin {"start", "off"} /\ calls # <<>>

\* the namespace the pipeline was called with as the default one
PassedDefault == options.defaultNamespace

\* every merged file of the namespace has its top-level entries at the root
\* of its language
FlattenedAtRoot(namespace) ==
  \A i \in 1..Len(files) :
    (/\ FileNamespace(files[i]) = namespace
     /\ files[i].data.json
     /\ FileLanguage(files[i]) \in DOMAIN resources) =>
      \A k \in DOMAIN files[i].data.value :
        /\ k \in DOMAIN resources[FileLanguage(files[i])]
        /\ resources[FileLanguage(files[i])][k] = files[i].data.value[k]

\* C27, for every handler: with exactly one namespace requested the
\* pipeline is called with that namespace as the default one, whatever was
\* configured, and the namespace's messages end at the language root; with
\* two or more namespaces it is called with the configured default.
C27_SingleNamespaceIsDefault ==
  PipelineCalled =>
    IF Len(options.namespaces) = 1
    THEN /\ PassedDefault = options.namespaces[1]
         /\ FlattenedAtRoot(options.namespaces[1])
    ELSE PassedDefault = argv.defaultNamespace

\* C27: the handlers of generate.ts and part_004 call the pipeline with the
\* one requested namespace as the default one, whatever was configured, and
\* its messages end at the language root; the handler of logger.ts, and
\* every handler with two or more namespaces, calls it with the configured
\* default.
C27_SingleNamespaceIsDefaultInOlderHandlers ==
  PipelineCalled =>
    IF build.handler \in {"generate.ts", "part_004"} /\ Len(options.namespaces) = 1
    THEN /\ PassedDefault = options.namespaces[1]
         /\ FlattenedAtRoot(options.namespaces[1])
    ELSE PassedDefault = argv.defaultNamespace

C27_Witness ==
  /\ build.handler = "part_004"
  /\ argv.defaultNamespace = NULL
  /\ options.namespaces = <<"common">>
  /\ PassedDefault = "common"
  /\ pc = "done"
  /\ caught = <<>>
  /\ resources = [en |-> [hello |-> S(<<"hi">>)]]

====
